---- MODULE Spec2Model ----
(***************************************************************************)
(* Consensus engines of blockchain-from-scratch (c3_consensus): PoW, the   *)
(* authority-set family, and the Forked / Alternating / EvenOnly           *)
(* combinators, each with its validate and seal.  One behaviour draws the  *)
(* arguments of one call (engine, parent digest, header or chain) and      *)
(* then runs the call; PoW::seal, the only loop, runs one iteration per    *)
(* step.                                                                   *)
(***************************************************************************)
EXTENDS Integers, Sequences, FiniteSets, TLC

VARIABLES
    call,           \* which function is called: "validate", "seal", "verify_sub_chain",
                    \* or "from" (a digest conversion and the conversion back)
    engine,         \* &self: the consensus engine the method is called on; for
                    \* "from", the impl From that is called
    parent_digest,  \* argument parent_digest; for "from", the argument d
    header,         \* argument header (validate) or partial_header (seal)
    chain,          \* argument chain (verify_sub_chain)
    args,           \* the other arguments of a call of c4_client, as a record
    pc,             \* "start", "loop" (inside PoW::seal's while), "done"
    h,              \* PoW::seal's local `let mut h`
    result          \* the value returned, or how the call ended

vars == <<call, engine, parent_digest, header, chain, args, pc, h, result>>

(***************************************************************************)
(* Bounds of the model.                                                    *)
(***************************************************************************)
\* u64 values of a PoW digest (nonce) are 0 .. NonceSpace-1.
NonceSpace == 12
\* u64 values of a hash and of a threshold are 0 .. HashSpace-1.
HashSpace == 8
\* Block heights are 0 .. MaxHeight.
MaxHeight == 5
\* state_root is an unsigned integer of StateRootBits bits (64 in the
\* program): its values are 0 .. MaxStateRoot, the largest one odd.
StateRootBits == 2
MaxStateRoot == 2^StateRootBits - 1
\* Slots of a SlotDigest are 0 .. MaxSlot.
MaxSlot == 4
\* verify_sub_chain is called on chains of at most MaxChainLen headers.
MaxChainLen == 3
\* cash_inside and a withdrawal are unsigned integers of CashBits bits (64 in
\* the program).
CashBits == 7
\* The keystroke registers an ATM starts from hold at most MaxRegisterLen keys.
MaxRegisterLen == 3

(***************************************************************************)
(* Program constants.                                                      *)
(***************************************************************************)
\* PoW::seal starts its search at consensus_digest: 10.
InitialNonce == 10
\* From<PowOrPoaDigest> for u64 maps Poa(_) to 10.
PoaAsU64 == 10

\* change_authorities builds its engine with fork_height : 10.
ChangeAuthoritiesForkHeight == 10
\* change_difficulty builds its engine with fork_height : 10.
ChangeDifficultyForkHeight == 10
\* p6_open_ended.rs: const N_ROWS and const N_COLS.
N_ROWS == 3
N_COLS == 3

Nonces == 0 .. (NonceSpace - 1)
Thresholds == 0 .. (HashSpace - 1)
Heights == 0 .. MaxHeight
StateRoots == 0 .. MaxStateRoot
Slots == 0 .. MaxSlot

\* enum ConsensusAuthority: the three variants the exhaustive match of
\* PoaRoundRobinByHeight::seal names.
Alice == "Alice"
Bob == "Bob"
Charlie == "Charlie"
ConsensusAuthority == {Alice, Bob, Charlie}

\* The digest () of a partial header.
Unit == "()"

\* Option<T>: None and Some(x).
None == <<>>
Some(x) == <<x>>
IsSome(o) == Len(o) = 1
Unwrap(o) == o[1]

(***************************************************************************)
(* Header<Digest> and its hash.                                            *)
(***************************************************************************)
Header(p, ht, sr, er, d) ==
    [parent |-> p, height |-> ht, state_root |-> sr, extrinsics_root |-> er,
     consensus_digest |-> d]

\* The header `hd` with its digest replaced (the field-by-field copies the
\* engines make when they change a header's digest type).
WithDigest(hd, d) ==
    Header(hd.parent, hd.height, hd.state_root, hd.extrinsics_root, d)

\* crate::hash on a Header<u64>: a deterministic function of every field,
\* with values in 0 .. HashSpace-1.  The nonce enters through its square so
\* that, as for a real hash, not every header has a nonce under every
\* threshold.
Hash(hd) ==
    (1 + 3 * hd.parent + 5 * hd.height + 7 * hd.state_root
       + 2 * hd.extrinsics_root + hd.consensus_digest * hd.consensus_digest) % HashSpace

(***************************************************************************)
(* Results.  validate returns "true" or "false", or ends in "panic".       *)
(* seal returns Some(header) or None, or ends in a panic, or never         *)
(* returns ("hang").                                                       *)
(***************************************************************************)
Bool(b) == IF b THEN "true" ELSE "false"
Panic == "panic"

\* a && b on validate results: b is evaluated only when a is true.
AndThen(a, b) == IF a = "true" THEN b ELSE a

SealSome(hd) == [kind |-> "some", header |-> hd]
SealNone == [kind |-> "none"]
SealPanic == [kind |-> "panic"]
SealHang == [kind |-> "hang"]

(***************************************************************************)
(* The engines, as the values of their structs.                            *)
(***************************************************************************)
PoW(t) == [kind |-> "PoW", threshold |-> t]
SimplePoa(auths) == [kind |-> "SimplePoa", authorities |-> auths]
PoaRoundRobinByHeight(auths) == [kind |-> "PoaRoundRobinByHeight", authorities |-> auths]
PoaRoundRobinBySlot(auths) == [kind |-> "PoaRoundRobinBySlot", authorities |-> auths]
EvenOnly(inner) == [kind |-> "EvenOnly", inner_c |-> inner]
AlternatingPowPoa(pow, poa) == [kind |-> "AlternatingPowPoa", inner_pow |-> pow, inner_poa |-> poa]
\* Forked<D, Before, After>; D is the name of the unifying digest type.
Forked(D, fh, before, after) ==
    [kind |-> "Forked", D |-> D, fork_height |-> fh,
     inner_c_before |-> before, inner_c_after |-> after]

RECURSIVE DigestType(_)
\* type Digest of each impl Consensus.
DigestType(e) ==
    CASE e.kind = "PoW" -> "u64"
      [] e.kind \in {"SimplePoa", "PoaRoundRobinByHeight"} -> "ConsensusAuthority"
      [] e.kind = "PoaRoundRobinBySlot" -> "SlotDigest"
      [] e.kind = "EvenOnly" -> DigestType(e.inner_c)
      [] e.kind = "AlternatingPowPoa" -> "AlternatingPowPoaDigest"
      [] e.kind = "Forked" -> e.D

(***************************************************************************)
(* p1_pow.rs: PoW.                                                         *)
(***************************************************************************)
\* PoW::validate: hash(header) < self.threshold; the parent digest is unused.
PoWValidate(e, p, hd) == Bool(Hash(hd) < e.threshold)

\* PoW::seal, the header the search starts from.
PoWSealStart(ph) == WithDigest(ph, InitialNonce)

\* PoW::seal, the condition of its while loop.
PoWLoopCond(e, hd) == Hash(hd) > e.threshold

RECURSIVE PoWSearch(_, _, _, _)
\* PoW::seal's loop run to its end.  `checked` says whether the build checks
\* integer overflow: h.consensus_digest += 1 at the largest u64 panics when
\* it does and wraps to 0 when it does not.  After NonceSpace increments the
\* loop is back at a header it already rejected: it never returns.
PoWSearch(e, hd, checked, fuel) ==
    IF ~PoWLoopCond(e, hd) THEN SealSome(hd)
    ELSE IF fuel = 0 THEN SealHang
    ELSE IF hd.consensus_digest = NonceSpace - 1
         THEN IF checked THEN SealPanic
              ELSE PoWSearch(e, WithDigest(hd, 0), checked, fuel - 1)
    ELSE PoWSearch(e, WithDigest(hd, hd.consensus_digest + 1), checked, fuel - 1)

\* PoW::seal as one call (the form the combinators use).
PoWSeal(e, p, ph, checked) == PoWSearch(e, PoWSealStart(ph), checked, NonceSpace)

(***************************************************************************)
(* p3_poa.rs: SimplePoa, PoaRoundRobinByHeight, PoaRoundRobinBySlot.       *)
(***************************************************************************)
\* SimplePoa::validate: both digests are compared with the three variants;
\* self.authorities is not read.
SimplePoaValidate(e, p, hd) ==
    Bool(/\ (\/ hd.consensus_digest = Charlie
             \/ hd.consensus_digest = Bob
             \/ hd.consensus_digest = Alice)
         /\ (\/ p = Charlie
             \/ p = Bob
             \/ p = Alice))

\* The seal without the comparison with the parent's signer: always the
\* last authority.
SimplePoaSealAlwaysLast(e, p, ph, checked) ==
    IF Len(e.authorities) = 0 THEN SealNone
    ELSE SealSome(WithDigest(ph, e.authorities[Len(e.authorities)]))

\* SimplePoa::seal: the last authority, or the first one when the last one
\* is the parent's; None for an empty roster.
SimplePoaSeal(e, p, ph, checked) ==
    IF Len(e.authorities) = 0 THEN SealNone
    ELSE LET last == e.authorities[Len(e.authorities)]
             a == IF last = p THEN e.authorities[1] ELSE last
         IN  SealSome(WithDigest(ph, a))

\* PoaRoundRobinByHeight::validate.
PoaRoundRobinByHeightValidate(e, p, hd) ==
    IF hd.height % 3 = 1
    THEN Bool(hd.consensus_digest = Bob /\ p = Alice)
    ELSE IF hd.height % 3 = 0
    THEN Bool(hd.consensus_digest = Alice /\ p = Charlie)
    ELSE Bool(hd.consensus_digest = Charlie /\ p = Bob)

\* The seal with the parent check of Alice's turn naming the wrong
\* predecessor.
PoaRoundRobinByHeightSealWrongParent(e, p, ph, checked) ==
    LET a == CASE ph.height % 3 = 0 -> Alice
               [] ph.height % 3 = 1 -> Bob
               [] ph.height % 3 = 2 -> Charlie
        parent_is_correct ==
             CASE a = Alice -> p = Bob
               [] a = Bob -> p = Alice
               [] a = Charlie -> p = Bob
    IN  IF parent_is_correct THEN SealSome(WithDigest(ph, a)) ELSE SealNone

\* PoaRoundRobinByHeight::seal.
PoaRoundRobinByHeightSeal(e, p, ph, checked) ==
    LET a == CASE ph.height % 3 = 0 -> Alice
               [] ph.height % 3 = 1 -> Bob
               [] ph.height % 3 = 2 -> Charlie
        parent_is_correct ==
             CASE a = Alice -> p = Charlie
               [] a = Bob -> p = Alice
               [] a = Charlie -> p = Bob
    IN  IF parent_is_correct THEN SealSome(WithDigest(ph, a)) ELSE SealNone

\* struct SlotDigest.
SlotDigest(s, sig) == [slot |-> s, signature |-> sig]

\* The validate with the slot comparison not strict: a slot equal to the
\* parent's passes.
PoaRoundRobinBySlotValidateAllowsReuse(e, p, hd) ==
    IF hd.consensus_digest.slot % 3 = 1
    THEN Bool(hd.consensus_digest.signature = Bob /\ p.slot <= hd.consensus_digest.slot)
    ELSE IF hd.height % 3 = 0
    THEN Bool(hd.consensus_digest.signature = Alice /\ p.slot <= hd.consensus_digest.slot)
    ELSE Bool(hd.consensus_digest.signature = Charlie /\ p.slot <= hd.consensus_digest.slot)

\* PoaRoundRobinBySlot::validate: the first branch tests the slot, the
\* second one the height.
PoaRoundRobinBySlotValidate(e, p, hd) ==
    IF hd.consensus_digest.slot % 3 = 1
    THEN Bool(hd.consensus_digest.signature = Bob /\ p.slot < hd.consensus_digest.slot)
    ELSE IF hd.height % 3 = 0
    THEN Bool(hd.consensus_digest.signature = Alice /\ p.slot < hd.consensus_digest.slot)
    ELSE Bool(hd.consensus_digest.signature = Charlie /\ p.slot < hd.consensus_digest.slot)

\* PoaRoundRobinBySlot::seal: slot parent.slot + 1 (a u64 addition: at the
\* largest slot it panics in a build that checks overflow and wraps to 0
\* otherwise) and the signer of that slot.
PoaRoundRobinBySlotSeal(e, p, ph, checked) ==
    IF p.slot = MaxSlot /\ checked THEN SealPanic
    ELSE LET next == IF p.slot = MaxSlot THEN 0 ELSE p.slot + 1
             a == CASE next % 3 = 0 -> Alice
                    [] next % 3 = 1 -> Bob
                    [] next % 3 = 2 -> Charlie
         IN  SealSome(WithDigest(ph, SlotDigest(next, a)))

(***************************************************************************)
(* The trait methods, dispatched on the engine a combinator holds.         *)
(***************************************************************************)
RECURSIVE Validate(_, _, _)
RECURSIVE Seal(_, _, _, _)

(***************************************************************************)
(* p4_even_only.rs: EvenOnly<Inner>.                                       *)
(***************************************************************************)
\* The validate without `valid &= header.state_root % 2 == 0`.
EvenOnlyValidateWithoutParity(e, p, hd) == Validate(e.inner_c, p, hd)

\* EvenOnly::validate: valid = inner validate; valid &= state_root % 2 == 0.
EvenOnlyValidate(e, p, hd) ==
    LET valid == Validate(e.inner_c, p, hd)
    IN  IF valid = Panic THEN Panic
        ELSE Bool(valid = "true" /\ hd.state_root % 2 = 0)

\* The seal that hands the partial header to the inner engine as it is.
EvenOnlySealKeepsStateRoot(e, p, ph, checked) == Seal(e.inner_c, p, ph, checked)

\* EvenOnly::seal: an odd state_root becomes state_root + 1 (a u64 addition,
\* which overflows at the largest u64), then the inner engine seals.
EvenOnlySeal(e, p, ph, checked) ==
    IF ph.state_root % 2 = 0 THEN Seal(e.inner_c, p, ph, checked)
    ELSE IF ph.state_root = MaxStateRoot
         THEN IF checked THEN SealPanic
              ELSE Seal(e.inner_c, p, [ph EXCEPT !.state_root = 0], checked)
    ELSE Seal(e.inner_c, p, [ph EXCEPT !.state_root = ph.state_root + 1], checked)

(***************************************************************************)
(* p6_forking.rs: Forked<D, Before, After> and its digest conversions.     *)
(***************************************************************************)
\* enum PowOrPoaDigest.
Pow(v) == [tag |-> "Pow", pow |-> v]
Poa(a) == [tag |-> "Poa", poa |-> a]

\* From<PowOrPoaDigest> for ConsensusAuthority.
PowOrPoaToAuthority(d) == IF d.tag = "Pow" THEN Alice ELSE d.poa

\* The projection that forgets the nonce: every union value maps to 10.
PowOrPoaToU64Constant(d) == PoaAsU64

\* From<PowOrPoaDigest> for u64.
PowOrPoaToU64(d) == IF d.tag = "Pow" THEN d.pow ELSE PoaAsU64

\* The From/Into conversion of a digest d of type `from` to type `to`: the
\* identity between equal types, the impls of p6_forking.rs otherwise.
Convert(from, to, d) ==
    CASE from = to -> d
      [] from = "u64" /\ to = "PowOrPoaDigest" -> Pow(d)
      [] from = "ConsensusAuthority" /\ to = "PowOrPoaDigest" -> Poa(d)
      [] from = "PowOrPoaDigest" /\ to = "ConsensusAuthority" -> PowOrPoaToAuthority(d)
      [] from = "PowOrPoaDigest" /\ to = "u64" -> PowOrPoaToU64(d)

\* The test with the boundary off by one: fork_height itself counts as after.
ForkedIsAfterOffByOne(e, height) == height >= e.fork_height

\* Forked::validate and Forked::seal, the test that selects inner_c_after.
ForkedIsAfter(e, height) == height > e.fork_height

\* Forked::validate.
ForkedValidate(e, p, hd) ==
    IF ForkedIsAfter(e, hd.height)
    THEN LET A == DigestType(e.inner_c_after)
             digest_after == Convert(e.D, A, p)
             header_after == WithDigest(hd, Convert(e.D, A, hd.consensus_digest))
         IN  Validate(e.inner_c_after, digest_after, header_after)
    ELSE LET B == DigestType(e.inner_c_before)
             digest_before == Convert(e.D, B, p)
             header_before == WithDigest(hd, Convert(e.D, B, hd.consensus_digest))
         IN  Validate(e.inner_c_before, digest_before, header_before)

\* Forked::seal, the conversion of the inner engine's result to Header<D>.
ForkedLift(rheader, from, to) ==
    IF rheader.kind = "some"
    THEN SealSome(WithDigest(rheader.header,
                             Convert(from, to, rheader.header.consensus_digest)))
    ELSE rheader

\* The seal that never leaves the engine of before the fork.
ForkedSealAlwaysBefore(e, p, ph, checked) ==
    LET B == DigestType(e.inner_c_before)
        digest_before == Convert(e.D, B, p)
    IN  ForkedLift(Seal(e.inner_c_before, digest_before, ph, checked), B, e.D)

\* Forked::seal.
ForkedSeal(e, p, ph, checked) ==
    IF ForkedIsAfter(e, ph.height)
    THEN LET A == DigestType(e.inner_c_after)
             digest_after == Convert(e.D, A, p)
         IN  ForkedLift(Seal(e.inner_c_after, digest_after, ph, checked), A, e.D)
    ELSE LET B == DigestType(e.inner_c_before)
             digest_before == Convert(e.D, B, p)
         IN  ForkedLift(Seal(e.inner_c_before, digest_before, ph, checked), B, e.D)

\* PoW::create_default_instance: threshold u64::max_value() / 100.
PoWDefaultThreshold == (HashSpace - 1) \div 100

\* create_default_instance of the engines without type parameters.
CreateDefaultInstance(kind) ==
    CASE kind = "PoW" -> PoW(PoWDefaultThreshold)
      [] kind = "SimplePoa" -> SimplePoa(<<Alice, Bob, Charlie>>)
      [] kind = "PoaRoundRobinByHeight" -> PoaRoundRobinByHeight(<<Alice, Bob, Charlie>>)
      [] kind = "PoaRoundRobinBySlot" -> PoaRoundRobinBySlot(<<Alice, Bob, Charlie>>)

\* even_after_given_height::<Original>(fork_height).
EvenAfterGivenHeight(Original, fork_height) ==
    Forked(DigestType(CreateDefaultInstance(Original)), fork_height,
           CreateDefaultInstance(Original),
           EvenOnly(CreateDefaultInstance(Original)))

\* change_authorities(fork_height, initial_authorities, final_authorities):
\* the argument fork_height is not used.
ChangeAuthorities(fork_height, initial_authorities, final_authorities) ==
    Forked("ConsensusAuthority", ChangeAuthoritiesForkHeight,
           SimplePoa(initial_authorities), SimplePoa(final_authorities))

\* change_difficulty(fork_height, initial_difficulty, final_difficulty): the
\* argument fork_height is not used.
ChangeDifficulty(fork_height, initial_difficulty, final_difficulty) ==
    Forked("u64", ChangeDifficultyForkHeight,
           PoW(initial_difficulty), PoW(final_difficulty))

\* pow_to_poa(fork_height, difficulty, authorities).
PowToPoa(fork_height, difficulty, authorities) ==
    Forked("PowOrPoaDigest", fork_height, PoW(difficulty), SimplePoa(authorities))

RECURSIVE ForkedVerifySubChain(_, _, _)
\* Forked::verify_sub_chain.  The slice index chain[1] is c[2] here and
\* chain[1..] is Tail(c).
ForkedVerifySubChain(e, p, c) ==
    IF Len(c) = 0 THEN "true"
    ELSE IF Len(c) = 1 THEN "false"
    ELSE IF Len(c) > 2
         THEN AndThen(ForkedValidate(e, p, c[2]),
                      ForkedVerifySubChain(e, c[2].consensus_digest, Tail(c)))
    ELSE ForkedValidate(e, p, c[2])

(***************************************************************************)
(* p5_interleave.rs: AlternatingPowPoa.                                    *)
(***************************************************************************)
\* struct AlternatingPowPoaDigest: two Option fields.
AlternatingPowPoaDigest(a, d) == [authority |-> a, digest_for_threshold |-> d]

\* AlternatingPowPoa::validate.  The header's own slot is unwrapped: a None
\* there panics.
AlternatingPowPoaValidate(e, p, hd) ==
    IF hd.height % 2 = 1
    THEN IF IsSome(p.digest_for_threshold)
         THEN IF IsSome(hd.consensus_digest.digest_for_threshold)
              THEN Validate(e.inner_pow, 0,
                            WithDigest(hd, Unwrap(hd.consensus_digest.digest_for_threshold)))
              ELSE Panic
         ELSE "false"
    ELSE IF IsSome(p.authority)
         THEN IF IsSome(hd.consensus_digest.authority)
              THEN Validate(e.inner_poa, Unwrap(p.authority),
                            WithDigest(hd, Unwrap(hd.consensus_digest.authority)))
              ELSE Panic
         ELSE "false"

\* AlternatingPowPoa::seal, the digest built around a PoW seal.
AlternatingPowDigest(nonce) == AlternatingPowPoaDigest(None, Some(nonce))

\* AlternatingPowPoa::seal, the digest built around a PoA seal.
AlternatingPoaDigest(a) == AlternatingPowPoaDigest(Some(a), None)

\* The seal with the parities exchanged: PoW at even heights, PoA at odd.
AlternatingPowPoaSealEvenPow(e, p, ph, checked) ==
    IF ph.height % 2 = 0
    THEN IF IsSome(p.digest_for_threshold)
         THEN LET pow_header == Seal(e.inner_pow, Unwrap(p.digest_for_threshold), ph, checked)
              IN  IF pow_header.kind = "some"
                  THEN SealSome(WithDigest(pow_header.header,
                           AlternatingPowDigest(pow_header.header.consensus_digest)))
                  ELSE pow_header
         ELSE SealNone
    ELSE IF IsSome(p.authority)
         THEN LET poa_header == Seal(e.inner_poa, Unwrap(p.authority), ph, checked)
              IN  IF poa_header.kind = "some"
                  THEN SealSome(WithDigest(poa_header.header,
                           AlternatingPoaDigest(poa_header.header.consensus_digest)))
                  ELSE poa_header
         ELSE SealNone

\* AlternatingPowPoa::seal.
AlternatingPowPoaSeal(e, p, ph, checked) ==
    IF ph.height % 2 = 1
    THEN IF IsSome(p.digest_for_threshold)
         THEN LET pow_header == Seal(e.inner_pow, Unwrap(p.digest_for_threshold), ph, checked)
              IN  IF pow_header.kind = "some"
                  THEN SealSome(WithDigest(pow_header.header,
                           AlternatingPowDigest(pow_header.header.consensus_digest)))
                  ELSE pow_header
         ELSE SealNone
    ELSE IF IsSome(p.authority)
         THEN LET poa_header == Seal(e.inner_poa, Unwrap(p.authority), ph, checked)
              IN  IF poa_header.kind = "some"
                  THEN SealSome(WithDigest(poa_header.header,
                           AlternatingPoaDigest(poa_header.header.consensus_digest)))
                  ELSE poa_header
         ELSE SealNone

\* Consensus::validate of the engine e.
Validate(e, p, hd) ==
    CASE e.kind = "PoW" -> PoWValidate(e, p, hd)
      [] e.kind = "SimplePoa" -> SimplePoaValidate(e, p, hd)
      [] e.kind = "PoaRoundRobinByHeight" -> PoaRoundRobinByHeightValidate(e, p, hd)
      [] e.kind = "PoaRoundRobinBySlot" -> PoaRoundRobinBySlotValidate(e, p, hd)
      [] e.kind = "EvenOnly" -> EvenOnlyValidate(e, p, hd)
      [] e.kind = "Forked" -> ForkedValidate(e, p, hd)
      [] e.kind = "AlternatingPowPoa" -> AlternatingPowPoaValidate(e, p, hd)

\* Consensus::seal of the engine e.
Seal(e, p, ph, checked) ==
    CASE e.kind = "PoW" -> PoWSeal(e, p, ph, checked)
      [] e.kind = "SimplePoa" -> SimplePoaSeal(e, p, ph, checked)
      [] e.kind = "PoaRoundRobinByHeight" -> PoaRoundRobinByHeightSeal(e, p, ph, checked)
      [] e.kind = "PoaRoundRobinBySlot" -> PoaRoundRobinBySlotSeal(e, p, ph, checked)
      [] e.kind = "EvenOnly" -> EvenOnlySeal(e, p, ph, checked)
      [] e.kind = "Forked" -> ForkedSeal(e, p, ph, checked)
      [] e.kind = "AlternatingPowPoa" -> AlternatingPowPoaSeal(e, p, ph, checked)

(***************************************************************************)
(* c4_client/mod.rs: Header's constructors and checks, Block,              *)
(* create_empty_chain.  The digest type is u64 (Zero + One), the engine a  *)
(* PoW.                                                                    *)
(***************************************************************************)
\* crate::hash on a u64, a u8 or a state: a deterministic function with
\* values in 0 .. HashSpace-1.
HashU64(x) == (3 * x + 1) % HashSpace

\* StateMachine::next_state of the state machine a Block is generic over: a
\* pure function of a state and a transition.
SMNextState(s, t) == (s + t) % 2

RECURSIVE Replay(_, _)
\* for t in body.iter() { s = SM::next_state(&s, &t) }.
Replay(s, body) ==
    IF Len(body) = 0 THEN s ELSE Replay(SMNextState(s, Head(body)), Tail(body))

\* Header::genesis.
HeaderGenesis(genesis_state_root) == Header(0, 0, genesis_state_root, 0, 0)

\* Header::child.
HeaderChild(self, state_root, extrinsics_root) ==
    Header(Hash(self), self.height + 1, state_root, extrinsics_root, 1)

\* Header::verify_child: hash(self) == child.parent && self.height ==
\* child.height - 1.  The subtraction is evaluated only when the hashes
\* agree; for child.height 0 it overflows: a panic with overflow checks,
\* the largest u64 without, which is the height of no header here.
HeaderVerifyChild(self, child, checked) ==
    IF Hash(self) # child.parent THEN "false"
    ELSE IF child.height = 0 THEN (IF checked THEN Panic ELSE "false")
    ELSE Bool(self.height = child.height - 1)

RECURSIVE HeaderVerifySubChainLoop(_, _, _)
\* Header::verify_sub_chain, its for loop from block_i = i - 1 on (chain[k]
\* is c[k + 1] here): a pair for which verify_child is true returns false.
HeaderVerifySubChainLoop(c, i, checked) ==
    IF i > Len(c) - 1 THEN "true"
    ELSE LET linked == HeaderVerifyChild(c[i], c[i + 1], checked)
         IN  IF linked = Panic THEN Panic
             ELSE IF linked = "true" THEN "false"
             ELSE HeaderVerifySubChainLoop(c, i + 1, checked)

\* Header::verify_sub_chain; self is not read.
HeaderVerifySubChain(self, c, checked) ==
    IF Len(c) = 0 THEN "true"
    ELSE IF Len(c) = 1 THEN "false"
    ELSE HeaderVerifySubChainLoop(c, 1, checked)

\* struct Block.
Block(hd, body, consensus) == [header |-> hd, body |-> body, consensus |-> consensus]

\* What Block::child and create_empty_chain return or how they end.
BlockSome(b) == [kind |-> "block", block |-> b]
ChainSome(c) == [kind |-> "chain", chain |-> c]

\* Block::genesis.
BlockGenesis(C, genesis_state) ==
    Block(HeaderGenesis(HashU64(genesis_state)), <<>>, CreateDefaultInstance(C))

\* Block::child.  extrinsics[0] panics on an empty vector; the partial
\* header carries the parent's height; the seal is against Digest::one().
BlockChild(self, pre_state, extrinsics, checked) ==
    LET s == Replay(pre_state, self.body)
    IN  IF Len(extrinsics) = 0 THEN SealPanic
        ELSE LET hh == Header(Hash(self.header), self.header.height, HashU64(s),
                              HashU64(extrinsics[1]), Unit)
                 ch == Seal(self.consensus, 1, hh, checked)
             IN  CASE ch.kind = "some" ->
                        BlockSome(Block(ch.header, <<>>,
                                        CreateDefaultInstance(self.consensus.kind)))
                   [] ch.kind = "none" ->
                        BlockSome(Block(WithDigest(hh, 1), <<>>,
                                        CreateDefaultInstance(self.consensus.kind)))
                   [] OTHER -> ch

RECURSIVE CreateEmptyChainLoop(_, _, _, _, _)
\* create_empty_chain, its loop from index i on (chain[k] is c[k + 1]).
CreateEmptyChainLoop(c, pre_state, i, n, checked) ==
    IF i >= n THEN ChainSome(c)
    ELSE LET tb == BlockChild(c[i], pre_state, <<>>, checked)
         IN  IF tb.kind # "block" THEN tb
             ELSE CreateEmptyChainLoop(Append(c, tb.block),
                                       Replay(pre_state, tb.block.body),
                                       i + 1, n, checked)

\* create_empty_chain::<C, SM>(n, genesis_state).
CreateEmptyChain(C, n, genesis_state, checked) ==
    CreateEmptyChainLoop(<<BlockGenesis(C, genesis_state)>>, genesis_state, 1, n, checked)

(***************************************************************************)
(* c1_state_machine/p3_atm.rs: the ATM.                                    *)
(***************************************************************************)
\* The values of a u64 of the ATM are 0 .. MaxCash.
CashModulus == 2^CashBits
MaxCash == CashModulus - 1

\* enum Key.
NumericKeys == {"One", "Two", "Three", "Four"}
Keys == NumericKeys \cup {"Enter"}

\* enum Action.
SwipeCard(pin_hash) == [tag |-> "SwipeCard", pin_hash |-> pin_hash]
PressKey(key) == [tag |-> "PressKey", key |-> key]

\* enum Auth.
Waiting == [tag |-> "Waiting"]
Authenticating(hash) == [tag |-> "Authenticating", hash |-> hash]
Authenticated == [tag |-> "Authenticated"]

\* struct Atm.
Atm(cash_inside, expected_pin_hash, keystroke_register) ==
    [cash_inside |-> cash_inside,
     expected_pin_hash |-> expected_pin_hash,
     keystroke_register |-> keystroke_register]

\* next_state returned the state s.
AtmSome(s) == [kind |-> "state", state |-> s]

\* The withdrawal loop has read the whole register.
AtmAmount(n) == [kind |-> "amount", amount |-> n]

\* The digit the withdrawal's match gives a key.
KeyDigit(n) ==
    CASE n = "One" -> 1
      [] n = "Two" -> 2
      [] n = "Three" -> 3
      [] n = "Four" -> 4
      [] OTHER -> 0

RECURSIVE KeysCode(_)
\* A register as a number, one for each register.
KeysCode(register) ==
    IF Len(register) = 0 THEN 0
    ELSE 5 * KeysCode(SubSeq(register, 1, Len(register) - 1))
            + KeyDigit(register[Len(register)]) + 1

\* crate::hash on a keystroke register: a deterministic function with values
\* in 0 .. HashSpace-1.
HashKeys(register) == HashU64(KeysCode(register))

RECURSIVE AtmWithdrawal(_, _, _)
\* The for loop over the register: withdrawal so far, the keys still to
\* read (d is their number).  The power wraps; the multiplication and the
\* += are plain u64 arithmetic, which panics on overflow in a build with
\* overflow checks and wraps in one without.
AtmWithdrawal(withdrawal, rest, checked) ==
    IF Len(rest) = 0 THEN AtmAmount(withdrawal)
    ELSE LET d == Len(rest)
             pow == (10 ^ (d - 1)) % CashModulus
             product == KeyDigit(Head(rest)) * pow
             sum == withdrawal + (product % CashModulus)
         IN  IF (product >= CashModulus \/ sum >= CashModulus) /\ checked
             THEN SealPanic
             ELSE AtmWithdrawal(sum % CashModulus, Tail(rest), checked)

\* A SwipeCard that forgets the keys typed so far.
AtmSwipeCardClearsRegister(starting_state, pin) ==
    AtmSome(Atm(starting_state.cash_inside, Authenticating(pin), <<>>))

\* next_state, Action::SwipeCard(pin).
AtmSwipeCard(starting_state, pin) ==
    AtmSome(Atm(starting_state.cash_inside, Authenticating(pin),
                starting_state.keystroke_register))

\* An Enter that never authenticates.
AtmPressEnterNeverAuthenticates(starting_state, checked) ==
    AtmSome(Atm(starting_state.cash_inside, Waiting, <<>>))

\* next_state, Action::PressKey(Key::Enter).
AtmPressEnter(starting_state, checked) ==
    LET hash == HashKeys(starting_state.keystroke_register)
    IN  IF Authenticating(hash) = starting_state.expected_pin_hash
        THEN AtmSome(Atm(starting_state.cash_inside, Authenticated, <<>>))
        ELSE IF Authenticated = starting_state.expected_pin_hash
        THEN LET new_cash_amount == starting_state.cash_inside
                 w == AtmWithdrawal(0, starting_state.keystroke_register, checked)
             IN  IF w.kind # "amount" THEN w
                 ELSE AtmSome(Atm(IF w.amount > new_cash_amount
                                  THEN new_cash_amount
                                  ELSE new_cash_amount - w.amount,
                                  Waiting, <<>>))
        ELSE AtmSome(Atm(starting_state.cash_inside, Waiting, <<>>))

\* A key press that is registered whatever the ATM is doing.
AtmPressOtherKeyAlwaysRegisters(starting_state, key) ==
    AtmSome(Atm(starting_state.cash_inside, starting_state.expected_pin_hash,
                Append(starting_state.keystroke_register, key)))

\* next_state, Action::PressKey of a key other than Enter.
AtmPressOtherKey(starting_state, key) ==
    IF starting_state.expected_pin_hash = Waiting
    THEN AtmSome(Atm(starting_state.cash_inside, starting_state.expected_pin_hash,
                     starting_state.keystroke_register))
    ELSE AtmSome(Atm(starting_state.cash_inside, starting_state.expected_pin_hash,
                     Append(starting_state.keystroke_register, key)))

\* <Atm as StateMachine>::next_state.
AtmNextState(starting_state, t, checked) ==
    IF t.tag = "SwipeCard" THEN AtmSwipeCard(starting_state, t.pin_hash)
    ELSE IF t.key = "Enter" THEN AtmPressEnter(starting_state, checked)
    ELSE AtmPressOtherKey(starting_state, t.key)

(***************************************************************************)
(* c1_state_machine/p6_open_ended.rs: tic-tac-toe.  A state is an          *)
(* Rc<RefCell<State>>: next_state changes the State of its argument in     *)
(* place and returns another Rc to the same cell.                          *)
(***************************************************************************)
\* enum TTTSymbol.
TTTSymbol == {"X", "O", "Blank"}

\* The rows and the columns of a TTTBoard, as Rust indexes them.
Rows == 0 .. N_ROWS - 1
Cols == 0 .. N_COLS - 1

\* struct State.
State(board, num_transitions, last_mover, match_complete) ==
    [board |-> board,
     num_transitions |-> num_transitions,
     last_mover |-> last_mover,
     match_complete |-> match_complete]

\* State::new().
StateNew == State([r \in Rows |-> [c \in Cols |-> "Blank"]], 0, "Blank", FALSE)

\* enum Transition.
MarkCell(symbol, row, col) ==
    [tag |-> "MarkCell", symbol |-> symbol, row |-> row, col |-> col]
Reset == [tag |-> "Reset"]

\* next_state returned: the cell holds s.
TTTSome(s) == [kind |-> "state", state |-> s]

\* next_state panicked: the cell was left holding s.
TTTPanic(s) == [kind |-> "panic", state |-> s]

\* A mark that overwrites the mark of a cell.
TTTMarkOverwrites(s, symbol, row, col) ==
    IF symbol # "Blank"
    THEN [s EXCEPT !.board[row][col] = symbol,
                   !.num_transitions = @ + 1,
                   !.last_mover = symbol]
    ELSE s

\* next_state, line 121-126: the mark, if the cell is blank and the symbol
\* is not.
TTTMark(s, symbol, row, col) ==
    IF s.board[row][col] = "Blank" /\ symbol # "Blank"
    THEN [s EXCEPT !.board[row][col] = symbol,
                   !.num_transitions = @ + 1,
                   !.last_mover = symbol]
    ELSE s

\* "horizontal wins": some row holds three X or three O.
TTTHorizontal(data) ==
    \E r \in Rows : \/ \A c \in Cols : data[r][c] = "X"
                    \/ \A c \in Cols : data[r][c] = "O"

\* "vertical wins": some column holds three X or three O.
TTTVertical(data) ==
    \E r_index \in Cols : \/ \A r \in Rows : data[r][r_index] = "X"
                          \/ \A r \in Rows : data[r][r_index] = "O"

\* "diagonal wins": one of the two diagonals holds three X or three O.
TTTDiagonal(data) ==
    \E sym \in {"X", "O"} :
        \/ data[0][0] = sym /\ data[1][1] = sym /\ data[2][2] = sym
        \/ data[0][2] = sym /\ data[1][1] = sym /\ data[2][0] = sym

\* next_state, line 128-170: the checks after the mark.  The for of
\* "horizontal wins" iterates over `starting.borrow_mut().board.data`: the
\* RefMut of that expression lives until the loop ends, so the
\* `starting.borrow_mut()` in the loop's body, reached when a row is
\* complete, finds the cell already borrowed and panics.  The other checks
\* borrow inside an if's condition, and that borrow ends with the condition.
TTTChecks(s) ==
    IF ~s.match_complete /\ TTTHorizontal(s.board) THEN TTTPanic(s)
    ELSE IF ~s.match_complete /\ TTTVertical(s.board)
    THEN TTTSome([s EXCEPT !.match_complete = TRUE])
    ELSE IF ~s.match_complete /\ TTTDiagonal(s.board)
    THEN TTTSome([s EXCEPT !.match_complete = TRUE])
    ELSE IF ~s.match_complete /\ s.num_transitions = N_COLS * N_ROWS
    THEN TTTSome([s EXCEPT !.match_complete = TRUE])
    ELSE TTTSome(s)

\* <TicTacToeSystem as StateMachine>::next_state.
TTTNextState(starting, t) ==
    IF starting.match_complete THEN TTTSome(starting)
    ELSE IF t.tag = "MarkCell"
    THEN IF t.symbol = starting.last_mover THEN TTTSome(starting)
         ELSE IF t.row < N_ROWS /\ t.col < N_COLS
         THEN TTTChecks(TTTMark(starting, t.symbol, t.row, t.col))
         ELSE TTTSome(starting)
    ELSE TTTSome(StateNew)

(***************************************************************************)
(* The arguments the calls are drawn from.                                 *)
(***************************************************************************)
\* Rosters: empty, one member, one that omits Alice, the default one.
Rosters == {<<>>, <<Alice>>, <<Bob, Charlie>>, <<Alice, Bob, Charlie>>}

\* Nonces that reach every value of the nonce's part of the hash.
SmallNonces == 0 .. 3

\* Thresholds of the PoW engines inside combinators: a low and a high one.
LowThreshold == HashSpace \div 4
HighThreshold == (3 * HashSpace) \div 4

PoWEngines == {PoW(t) : t \in Thresholds}
\* SimplePoa also with a roster that names an authority twice.
SimplePoaEngines == {SimplePoa(r) : r \in Rosters \cup {<<Alice, Bob, Alice>>}}
PoaRoundRobinByHeightEngines == {PoaRoundRobinByHeight(r) : r \in Rosters}
PoaRoundRobinBySlotEngines ==
    {PoaRoundRobinBySlot(r) : r \in {<<>>, <<Bob, Charlie>>, <<Alice, Bob, Charlie>>}}
AlternatingEngines ==
    {AlternatingPowPoa(PoW(t), SimplePoa(<<Alice, Bob, Charlie>>)) :
        t \in {LowThreshold, HighThreshold}}

\* EvenOnly around each kind of engine.
EvenOnlyEngines ==
    {EvenOnly(PoW(LowThreshold)), EvenOnly(PoW(HighThreshold)),
     EvenOnly(SimplePoa(<<Alice, Bob, Charlie>>)),
     EvenOnly(PoaRoundRobinByHeight(<<Alice, Bob, Charlie>>)),
     EvenOnly(PoaRoundRobinBySlot(<<Alice, Bob, Charlie>>)),
     EvenOnly(AlternatingPowPoa(PoW(HighThreshold), SimplePoa(<<Alice, Bob, Charlie>>)))}

\* The Forked engines with fork height fh: PoW to PoA across digest types
\* (pow_to_poa), a change of difficulty, a change of the authority rules,
\* and even-only after the fork (even_after_given_height).
ForkedEnginesAt(fh) ==
    {Forked("PowOrPoaDigest", fh, PoW(HighThreshold), SimplePoa(<<Bob, Charlie>>)),
     Forked("u64", fh, PoW(LowThreshold), PoW(HighThreshold)),
     Forked("ConsensusAuthority", fh,
            PoaRoundRobinByHeight(<<Alice, Bob, Charlie>>), SimplePoa(<<Bob, Charlie>>)),
     Forked("u64", fh, PoW(HighThreshold), EvenOnly(PoW(HighThreshold))),
     EvenAfterGivenHeight("PoW", fh),
     EvenAfterGivenHeight("SimplePoa", fh)}
ForkedEngines == UNION {ForkedEnginesAt(fh) : fh \in Heights}

Engines ==
    PoWEngines \cup SimplePoaEngines \cup PoaRoundRobinByHeightEngines
        \cup PoaRoundRobinBySlotEngines \cup AlternatingEngines \cup ForkedEngines
        \cup EvenOnlyEngines

\* impl From<from> for to, the four of p6_forking.rs.
FromImpl(from, to) == [kind |-> "From", from |-> from, to |-> to]
FromImpls ==
    {FromImpl("u64", "PowOrPoaDigest"), FromImpl("ConsensusAuthority", "PowOrPoaDigest"),
     FromImpl("PowOrPoaDigest", "ConsensusAuthority"), FromImpl("PowOrPoaDigest", "u64")}

\* The calls of change_authorities and change_difficulty, with their
\* arguments: every fork height, two rosters and two thresholds in both
\* orders.
ChangeAuthoritiesCalls ==
    {[kind |-> "change_authorities", fork_height |-> fh,
      initial_authorities |-> i, final_authorities |-> f] :
        fh \in Heights,
        i \in {<<Alice>>, <<Bob, Charlie>>}, f \in {<<Alice>>, <<Bob, Charlie>>}}
ChangeDifficultyCalls ==
    {[kind |-> "change_difficulty", fork_height |-> fh,
      initial_difficulty |-> i, final_difficulty |-> f] :
        fh \in Heights,
        i \in {LowThreshold, HighThreshold}, f \in {LowThreshold, HighThreshold}}

\* Heights of the headers handed to the engines these two build: the
\* model's heights and the two around the height the engines fork at.
ChangeHeights ==
    Heights \cup {ChangeAuthoritiesForkHeight, ChangeAuthoritiesForkHeight + 1}
                \cup {ChangeDifficultyForkHeight, ChangeDifficultyForkHeight + 1}
ChangePartialHeaders ==
    {Header(0, ht, sr, 0, Unit) : ht \in ChangeHeights, sr \in StateRoots}

\* The impl block or function of c4_client that is called.
ClientFn(name) == [kind |-> name]

\* Headers of the client: two genesis headers, their children and
\* grandchildren by Header::child, and for each child and grandchild one
\* copy with a wrong parent and one with a height one too low.
ClientGenesisHeaders == {HeaderGenesis(r) : r \in {0, 1}}
ClientChildHeaders == {HeaderChild(g, 0, 0) : g \in ClientGenesisHeaders}
ClientGrandChildHeaders == {HeaderChild(c, 0, 0) : c \in ClientChildHeaders}
ClientBrokenHeaders ==
    {[c EXCEPT !.parent = (c.parent + 1) % HashSpace] :
        c \in ClientChildHeaders \cup ClientGrandChildHeaders}
    \cup {[c EXCEPT !.height = c.height - 1] :
             c \in ClientChildHeaders \cup ClientGrandChildHeaders}
ClientHeaders ==
    ClientGenesisHeaders \cup ClientChildHeaders \cup ClientGrandChildHeaders
        \cup ClientBrokenHeaders

\* Parent blocks handed to Block::child: bodies of zero to two transitions,
\* PoW engines of three thresholds.
ClientBlocks ==
    {Block(hd, body, PoW(t)) :
        hd \in ClientGenesisHeaders \cup ClientChildHeaders \cup ClientGrandChildHeaders,
        body \in {<<>>, <<1>>, <<1, 0>>},
        t \in {PoWDefaultThreshold, LowThreshold, HighThreshold}}

\* Digests a header can carry, by digest type.
HeaderDigests(t) ==
    CASE t = "u64" -> Nonces
      [] t = "ConsensusAuthority" -> ConsensusAuthority
      [] t = "SlotDigest" -> {SlotDigest(s, a) : s \in Slots, a \in ConsensusAuthority}
      [] t = "PowOrPoaDigest" ->
             {Pow(n) : n \in SmallNonces} \cup {Poa(a) : a \in ConsensusAuthority}
      [] t = "AlternatingPowPoaDigest" ->
             {AlternatingPowPoaDigest(a, d) :
                 a \in {None} \cup {Some(x) : x \in ConsensusAuthority},
                 d \in {None} \cup {Some(n) : n \in SmallNonces}}

\* Parent digests, by digest type.
ParentDigests(t) ==
    CASE t = "u64" -> {0, InitialNonce}
      [] t = "ConsensusAuthority" -> ConsensusAuthority
      [] t = "SlotDigest" -> {SlotDigest(s, Alice) : s \in Slots}
      [] t = "PowOrPoaDigest" -> {Pow(0)} \cup {Poa(a) : a \in ConsensusAuthority}
      [] t = "AlternatingPowPoaDigest" ->
             {AlternatingPowPoaDigest(a, d) :
                 a \in {None} \cup {Some(x) : x \in ConsensusAuthority},
                 d \in {None, Some(0)}}

\* Header<()>: the headers handed to seal.
PartialHeaders ==
    {Header(p, ht, sr, 0, Unit) : p \in {0, 1}, ht \in Heights, sr \in StateRoots}

\* Header<Digest> of digest type t.
FullHeaders(t) == {WithDigest(ph, d) : ph \in PartialHeaders, d \in HeaderDigests(t)}

\* The headers the chains handed to verify_sub_chain are made of: heights on
\* both sides of fork height 1, two digests each.
ChainDigests(t) ==
    CASE t = "u64" -> {0, 1}
      [] t = "ConsensusAuthority" -> {Alice, Bob}
      [] t = "PowOrPoaDigest" -> {Pow(1), Poa(Bob)}
ChainHeaders(t) == {Header(0, ht, 0, 0, d) : ht \in {1, 2}, d \in ChainDigests(t)}

RECURSIVE SeqsUpTo(_, _)
\* The sequences over S of length at most n.
SeqsUpTo(S, n) ==
    IF n = 0 THEN {<<>>}
    ELSE LET shorter == SeqsUpTo(S, n - 1)
         IN  shorter \cup {Append(c, x) : c \in {c \in shorter : Len(c) = n - 1}, x \in S}

\* The ATMs a call starts from: empty, with some cash and with all the cash a
\* u64 holds; waiting, checking a PIN of any hash, authenticated; with every
\* register of at most MaxRegisterLen numeric keys.
AtmCash == {0, 11, MaxCash}
AtmAuths == {Waiting, Authenticated} \cup {Authenticating(x) : x \in 0 .. HashSpace - 1}
AtmRegisters == SeqsUpTo(NumericKeys, MaxRegisterLen)
AtmStates == {Atm(c, a, r) : c \in AtmCash, a \in AtmAuths, r \in AtmRegisters}
AtmActions == {SwipeCard(p) : p \in {0, 1}} \cup {PressKey(k) : k \in Keys}

\* What an argument or a result holds before it is set.
Unset == "unset"

\* The args of a call that has no other arguments.
NoArgs == [none |-> TRUE]

\* PoW::seal's h before its let, and the result of a seal still running.
NoHeader == Header(0, 0, 0, 0, 0)
SealUnset == [kind |-> "unset"]

(***************************************************************************)
(* Initial states: the arguments of one call.                              *)
(***************************************************************************)
InitValidate ==
    /\ call = "validate"
    /\ engine \in Engines
    /\ parent_digest \in ParentDigests(DigestType(engine))
    /\ header \in FullHeaders(DigestType(engine))
    /\ chain = <<>>

InitSeal ==
    /\ call = "seal"
    /\ engine \in Engines
    /\ parent_digest \in ParentDigests(DigestType(engine))
    /\ header \in PartialHeaders
    /\ chain = <<>>

InitVerifySubChain ==
    /\ call = "verify_sub_chain"
    /\ engine \in ForkedEnginesAt(1)
    /\ parent_digest \in ParentDigests(DigestType(engine))
    /\ header = Unset
    /\ chain \in SeqsUpTo(ChainHeaders(DigestType(engine)), MaxChainLen)

InitFrom ==
    /\ call = "from"
    /\ engine \in FromImpls
    /\ parent_digest \in HeaderDigests(engine.from)
    /\ header = Unset
    /\ chain = <<>>

\* change_authorities(..) and a seal on the engine it returns.
InitChangeAuthorities ==
    /\ call = "seal"
    /\ engine \in ChangeAuthoritiesCalls
    /\ parent_digest \in ConsensusAuthority
    /\ header \in ChangePartialHeaders
    /\ chain = <<>>

\* change_difficulty(..) and a validate on the engine it returns.
InitChangeDifficulty ==
    /\ call = "validate"
    /\ engine \in ChangeDifficultyCalls
    /\ parent_digest = 0
    /\ header \in {WithDigest(ph, d) : ph \in ChangePartialHeaders, d \in SmallNonces}
    /\ chain = <<>>

\* The calls on the consensus engines.
InitConsensus ==
    /\ (InitValidate \/ InitSeal \/ InitVerifySubChain \/ InitFrom
          \/ InitChangeAuthorities \/ InitChangeDifficulty)
    /\ args = NoArgs

\* self.verify_sub_chain(chain) on a Header<u64>.
InitHeaderVerifySubChain ==
    /\ call = "verify_sub_chain"
    /\ engine = ClientFn("Header")
    /\ parent_digest = 0
    /\ header \in ClientGenesisHeaders
    /\ chain \in SeqsUpTo(ClientHeaders, MaxChainLen)
    /\ args = NoArgs

\* self.child(pre_state, extrinsics) on a Block; header and engine are
\* self.header and self.consensus.
InitBlockChild ==
    /\ call = "child"
    /\ engine = ClientFn("Block")
    /\ parent_digest = 0
    /\ header = Unset
    /\ chain = <<>>
    /\ args \in [self : ClientBlocks, pre_state : {0, 1},
                  extrinsics : {<<>>, <<0>>, <<1, 0>>}]

\* create_empty_chain::<PoW, SM>(n, genesis_state).
InitCreateEmptyChain ==
    /\ call = "create_empty_chain"
    /\ engine = ClientFn("create_empty_chain")
    /\ parent_digest = 0
    /\ header = Unset
    /\ chain = <<>>
    /\ args \in [n : 0 .. MaxChainLen, genesis_state : {0, 1}]

\* Atm::next_state(starting_state, t).
InitAtmNextState ==
    /\ call = "next_state"
    /\ engine = ClientFn("Atm")
    /\ parent_digest = 0
    /\ header = Unset
    /\ chain = <<>>
    /\ args \in [starting_state : AtmStates, t : AtmActions]

Init ==
    /\ (InitConsensus \/ InitHeaderVerifySubChain \/ InitBlockChild
          \/ InitCreateEmptyChain \/ InitAtmNextState)
    /\ pc = "start"
    /\ h = NoHeader
    /\ result = IF call = "seal" THEN SealUnset ELSE Unset

(***************************************************************************)
(* Actions: one per trait method of each engine.                           *)
(***************************************************************************)
\* What a call leaves alone: its arguments.
Args == <<call, engine, parent_digest, header, chain, args>>

\* A call on an engine of kind k is about to run.
AtStart(c, k) == pc = "start" /\ call = c /\ engine.kind = k

\* The call returns r.
Return(r) == result' = r /\ pc' = "done" /\ UNCHANGED <<Args, h>>

CallPoWValidate ==
    /\ AtStart("validate", "PoW")
    /\ Return(PoWValidate(engine, parent_digest, header))

\* PoW::seal up to its loop: let mut h = Header { .., consensus_digest: 10 }.
PoWSealEnter ==
    /\ AtStart("seal", "PoW")
    /\ h' = PoWSealStart(header)
    /\ pc' = "loop"
    /\ UNCHANGED <<Args, result>>

\* One iteration of the loop: h.consensus_digest += 1.  At the largest u64
\* the addition panics (overflow checks on) or wraps (off).
PoWSealIterate ==
    /\ pc = "loop"
    /\ PoWLoopCond(engine, h)
    /\ IF h.consensus_digest = NonceSpace - 1
       THEN \/ result' = SealPanic /\ pc' = "done" /\ h' = h
            \/ h' = WithDigest(h, 0) /\ UNCHANGED <<pc, result>>
       ELSE h' = WithDigest(h, h.consensus_digest + 1) /\ UNCHANGED <<pc, result>>
    /\ UNCHANGED Args

\* The loop ends: return Option::Some(h).
PoWSealReturn ==
    /\ pc = "loop"
    /\ ~PoWLoopCond(engine, h)
    /\ result' = SealSome(h)
    /\ pc' = "done"
    /\ UNCHANGED <<Args, h>>

CallSimplePoaValidate ==
    /\ AtStart("validate", "SimplePoa")
    /\ Return(SimplePoaValidate(engine, parent_digest, header))

CallSimplePoaSeal ==
    /\ AtStart("seal", "SimplePoa")
    /\ \E checked \in BOOLEAN : Return(SimplePoaSeal(engine, parent_digest, header, checked))

CallPoaRoundRobinByHeightValidate ==
    /\ AtStart("validate", "PoaRoundRobinByHeight")
    /\ Return(PoaRoundRobinByHeightValidate(engine, parent_digest, header))

CallPoaRoundRobinByHeightSeal ==
    /\ AtStart("seal", "PoaRoundRobinByHeight")
    /\ \E checked \in BOOLEAN :
          Return(PoaRoundRobinByHeightSeal(engine, parent_digest, header, checked))

CallPoaRoundRobinBySlotValidate ==
    /\ AtStart("validate", "PoaRoundRobinBySlot")
    /\ Return(PoaRoundRobinBySlotValidate(engine, parent_digest, header))

CallPoaRoundRobinBySlotSeal ==
    /\ AtStart("seal", "PoaRoundRobinBySlot")
    /\ \E checked \in BOOLEAN :
          Return(PoaRoundRobinBySlotSeal(engine, parent_digest, header, checked))

CallForkedValidate ==
    /\ AtStart("validate", "Forked")
    /\ Return(ForkedValidate(engine, parent_digest, header))

CallForkedSeal ==
    /\ AtStart("seal", "Forked")
    /\ \E checked \in BOOLEAN : Return(ForkedSeal(engine, parent_digest, header, checked))

CallForkedVerifySubChain ==
    /\ AtStart("verify_sub_chain", "Forked")
    /\ Return(ForkedVerifySubChain(engine, parent_digest, chain))

CallAlternatingValidate ==
    /\ AtStart("validate", "AlternatingPowPoa")
    /\ Return(AlternatingPowPoaValidate(engine, parent_digest, header))

CallAlternatingSeal ==
    /\ AtStart("seal", "AlternatingPowPoa")
    /\ \E checked \in BOOLEAN :
          Return(AlternatingPowPoaSeal(engine, parent_digest, header, checked))

CallEvenOnlyValidate ==
    /\ AtStart("validate", "EvenOnly")
    /\ Return(EvenOnlyValidate(engine, parent_digest, header))

CallEvenOnlySeal ==
    /\ AtStart("seal", "EvenOnly")
    /\ \E checked \in BOOLEAN : Return(EvenOnlySeal(engine, parent_digest, header, checked))

\* to::from(d), and the value converted back: from::from(to::from(d)).
CallFromAndBack ==
    /\ AtStart("from", "From")
    /\ Return([there |-> Convert(engine.from, engine.to, parent_digest),
               back |-> Convert(engine.to, engine.from,
                                Convert(engine.from, engine.to, parent_digest))])

\* change_authorities(fork_height, initial, final).seal(parent_digest, header).
CallChangeAuthoritiesSeal ==
    /\ AtStart("seal", "change_authorities")
    /\ \E checked \in BOOLEAN :
          Return(ForkedSeal(ChangeAuthorities(engine.fork_height,
                                              engine.initial_authorities,
                                              engine.final_authorities),
                            parent_digest, header, checked))

\* change_difficulty(fork_height, initial, final).validate(parent_digest, header).
CallChangeDifficultyValidate ==
    /\ AtStart("validate", "change_difficulty")
    /\ Return(ForkedValidate(ChangeDifficulty(engine.fork_height,
                                              engine.initial_difficulty,
                                              engine.final_difficulty),
                             parent_digest, header))

CallHeaderVerifySubChain ==
    /\ AtStart("verify_sub_chain", "Header")
    /\ \E checked \in BOOLEAN : Return(HeaderVerifySubChain(header, chain, checked))

CallBlockChild ==
    /\ AtStart("child", "Block")
    /\ \E checked \in BOOLEAN :
          Return(BlockChild(args.self, args.pre_state, args.extrinsics, checked))

CallCreateEmptyChain ==
    /\ AtStart("create_empty_chain", "create_empty_chain")
    /\ \E checked \in BOOLEAN :
          Return(CreateEmptyChain("PoW", args.n, args.genesis_state, checked))

CallAtmNextState ==
    /\ AtStart("next_state", "Atm")
    /\ \E checked \in BOOLEAN :
          Return(AtmNextState(args.starting_state, args.t, checked))

Next ==
    \/ CallPoWValidate
    \/ PoWSealEnter
    \/ PoWSealIterate
    \/ PoWSealReturn
    \/ CallSimplePoaValidate
    \/ CallSimplePoaSeal
    \/ CallPoaRoundRobinByHeightValidate
    \/ CallPoaRoundRobinByHeightSeal
    \/ CallPoaRoundRobinBySlotValidate
    \/ CallPoaRoundRobinBySlotSeal
    \/ CallForkedValidate
    \/ CallForkedSeal
    \/ CallForkedVerifySubChain
    \/ CallAlternatingValidate
    \/ CallAlternatingSeal
    \/ CallEvenOnlyValidate
    \/ CallEvenOnlySeal
    \/ CallFromAndBack
    \/ CallChangeAuthoritiesSeal
    \/ CallChangeDifficultyValidate
    \/ CallHeaderVerifySubChain
    \/ CallBlockChild
    \/ CallCreateEmptyChain
    \/ CallAtmNextState

Spec == Init /\ [][Next]_vars

\* PoW::seal is straight-line code and a loop with nothing to wait for: once
\* entered, it keeps running.
FairSpec == Spec /\ WF_vars(PoWSealIterate) /\ WF_vars(PoWSealReturn)

(***************************************************************************)
(* A chain grown by sealing, as test_consensus_pow_to_poa grows one: from  *)
(* a genesis header with digest Pow(0), each next height is sealed by the  *)
(* pow_to_poa engine against the digest of the chain's last header; the    *)
(* loop ends at the first None.                                            *)
(***************************************************************************)
\* The test's genesis header.
PowToPoaGenesis == Header(0, 0, 0, 0, Pow(0))

\* The engines the chains are grown with: every fork height, three
\* difficulties, rosters with and without members.
PowToPoaEngines ==
    {PowToPoa(fh, t, r) : fh \in Heights,
                          t \in {PoWDefaultThreshold, LowThreshold, HighThreshold},
                          r \in Rosters}

ChainInit ==
    /\ call = "grow"
    /\ engine \in PowToPoaEngines
    /\ chain = <<PowToPoaGenesis>>
    /\ args = NoArgs
    /\ parent_digest = PowToPoaGenesis.consensus_digest
    /\ header = Header(0, 0, 0, 0, Unit)
    /\ pc = "start"
    /\ h = NoHeader
    /\ result = SealUnset

\* One turn of the test's loop: the partial header of the next height
\* (its parent and state_root any values), consensus.seal against the last
\* header's digest, push on Some, break on None.  A seal that panics or
\* never returns ends the growth as well.
ChainSealNext ==
    /\ call = "grow"
    /\ pc = "start"
    /\ Len(chain) <= MaxHeight
    /\ \E p \in {0, 1}, sr \in {0, 1}, checked \in BOOLEAN :
          LET partial_header == Header(p, Len(chain), sr, 0, Unit)
              digest == chain[Len(chain)].consensus_digest
              sealed == ForkedSeal(engine, digest, partial_header, checked)
          IN  /\ header' = partial_header
              /\ parent_digest' = digest
              /\ result' = sealed
              /\ IF sealed.kind = "some"
                 THEN chain' = Append(chain, sealed.header) /\ pc' = pc
                 ELSE chain' = chain /\ pc' = "done"
    /\ UNCHANGED <<call, engine, args, h>>

ChainNext == ChainSealNext

ChainSpec == ChainInit /\ [][ChainNext]_vars

(***************************************************************************)
(* A game of tic-tac-toe: from State::new(), any transitions one after the *)
(* other on the same cell.  result holds the cell, which the argument      *)
(* starting and the Rc returned both point to, and how the last call       *)
(* ended; args holds the call's transition and what the cell held when     *)
(* the call was made.                                                      *)
(***************************************************************************)
\* The cells a MarkCell names: those of the board and one outside it.
MarkCells == {<<r, c>> : r \in Rows, c \in Cols} \cup {<<N_ROWS, N_COLS>>}

TicTacToeInit ==
    /\ call = "play"
    /\ engine = ClientFn("TicTacToeSystem")
    /\ parent_digest = 0
    /\ header = Unset
    /\ chain = <<>>
    /\ args = NoArgs
    /\ pc = "start"
    /\ h = NoHeader
    /\ result = TTTSome(StateNew)

\* next_state(&state, &t).
TicTacToeStep(t) ==
    /\ call = "play"
    /\ pc = "start"
    /\ args' = [starting |-> result.state, t |-> t]
    /\ result' = TTTNextState(result.state, t)
    /\ pc' = "done"
    /\ UNCHANGED <<call, engine, parent_digest, header, chain, h>>

TicTacToeMarkCell ==
    \E symbol \in TTTSymbol, cell \in MarkCells :
        TicTacToeStep(MarkCell(symbol, cell[1], cell[2]))

TicTacToeReset == TicTacToeStep(Reset)

\* The caller goes on with the state returned; a panic ends the game.
TicTacToeAgain ==
    /\ call = "play"
    /\ pc = "done"
    /\ result.kind = "state"
    /\ args' = NoArgs
    /\ pc' = "start"
    /\ UNCHANGED <<call, engine, parent_digest, header, chain, h, result>>

TicTacToeNext == TicTacToeMarkCell \/ TicTacToeReset \/ TicTacToeAgain

TicTacToeSpec == TicTacToeInit /\ [][TicTacToeNext]_vars

(***************************************************************************)
(* Properties.                                                             *)
(***************************************************************************)
\* The call `c` on an engine of kind k has returned or panicked.
Done(c, k) == pc = "done" /\ call = c /\ engine.kind = k

\* C1: whenever PoW::seal returns a header H, hash(H) is strictly below the
\* engine's threshold and PoW::validate(parent_digest, H) is true.
PoWSealSound ==
    (Done("seal", "PoW") /\ result.kind = "some")
        => /\ Hash(result.header) < engine.threshold
           /\ PoWValidate(engine, parent_digest, result.header) = "true"

\* C2: PoW::seal is a bounded search: for every threshold, once in its loop
\* it leaves it and the call ends (with a header, or reporting failure)
\* instead of looping forever.
PoWSealTerminates == (pc = "loop") ~> Done("seal", "PoW")

\* Before.validate and After.validate on the digests projected from D.
BeforeValidate(e, p, hd) ==
    Validate(e.inner_c_before,
             Convert(e.D, DigestType(e.inner_c_before), p),
             WithDigest(hd, Convert(e.D, DigestType(e.inner_c_before), hd.consensus_digest)))
AfterValidate(e, p, hd) ==
    Validate(e.inner_c_after,
             Convert(e.D, DigestType(e.inner_c_after), p),
             WithDigest(hd, Convert(e.D, DigestType(e.inner_c_after), hd.consensus_digest)))

\* The results Before.seal and After.seal can give on the projected parent
\* digest, embedded back into D.
BeforeSeals(e, p, ph) ==
    {ForkedLift(Seal(e.inner_c_before, Convert(e.D, DigestType(e.inner_c_before), p),
                     ph, checked),
                DigestType(e.inner_c_before), e.D) : checked \in BOOLEAN}
AfterSeals(e, p, ph) ==
    {ForkedLift(Seal(e.inner_c_after, Convert(e.D, DigestType(e.inner_c_after), p),
                     ph, checked),
                DigestType(e.inner_c_after), e.D) : checked \in BOOLEAN}

EveryLinkValid(e, p, c) ==
    /\ Validate(e, p, c[1]) = "true"
    /\ \A i \in 2 .. Len(c) : Validate(e, c[i - 1].consensus_digest, c[i]) = "true"

\* C4: Forked::verify_sub_chain is true for the empty chain, false for a
\* chain of one header, and for a longer chain exactly the conjunction of
\* validate on element 0 against parent_digest and on every later element
\* against its predecessor's digest.
VerifySubChainChecksEveryLink ==
    Done("verify_sub_chain", "Forked")
        => result = IF Len(chain) = 0 THEN "true"
                    ELSE IF Len(chain) = 1 THEN "false"
                    ELSE Bool(EveryLinkValid(engine, parent_digest, chain))

\* C5: in every header AlternatingPowPoa::seal returns, the slot of the
\* engine that is not active at that height (authority at odd heights,
\* digest_for_threshold at even heights) is the parent digest's.
AlternatingKeepsInactiveSlot ==
    (Done("seal", "AlternatingPowPoa") /\ result.kind = "some")
        => IF result.header.height % 2 = 1
           THEN result.header.consensus_digest.authority = parent_digest.authority
           ELSE result.header.consensus_digest.digest_for_threshold
                    = parent_digest.digest_for_threshold

\* The slot of the engine active at `height`.
ActiveSlot(d, height) ==
    IF height % 2 = 1 THEN d.digest_for_threshold ELSE d.authority

\* C6: AlternatingPowPoa fails closed: validate returns false, without a
\* panic, when the active engine's slot is absent from the parent digest or
\* from the header's digest, and seal returns None when it is absent from
\* the parent digest.
AlternatingFailsClosed ==
    /\ (/\ Done("validate", "AlternatingPowPoa")
        /\ \/ ~IsSome(ActiveSlot(parent_digest, header.height))
           \/ ~IsSome(ActiveSlot(header.consensus_digest, header.height)))
          => result = "false"
    /\ (/\ Done("seal", "AlternatingPowPoa")
        /\ ~IsSome(ActiveSlot(parent_digest, header.height)))
          => result.kind = "none"

\* The members of a roster.
Members(roster) == {roster[i] : i \in 1 .. Len(roster)}

\* C7: SimplePoa::validate is roster membership: true exactly when the
\* header's digest and the parent digest are both in self.authorities.
SimplePoaValidateIsMembership ==
    Done("validate", "SimplePoa")
        => (result = "true"
              <=> /\ header.consensus_digest \in Members(engine.authorities)
                  /\ parent_digest \in Members(engine.authorities))

\* roster[n mod |roster|], the roster indexed from 0.
RosterAt(roster, n) == roster[(n % Len(roster)) + 1]

\* C8: PoaRoundRobinByHeight follows its roster R: validate accepts only if
\* the digest is R[height mod |R|] and the parent digest R[(height-1) mod
\* |R|], and seal proposes R[height mod |R|].
RoundRobinByHeightUsesRoster ==
    /\ (/\ Done("validate", "PoaRoundRobinByHeight")
        /\ Len(engine.authorities) > 0
        /\ result = "true")
          => /\ header.consensus_digest = RosterAt(engine.authorities, header.height)
             /\ parent_digest = RosterAt(engine.authorities, header.height - 1)
    /\ (/\ Done("seal", "PoaRoundRobinByHeight")
        /\ Len(engine.authorities) > 0
        /\ result.kind = "some")
          => result.header.consensus_digest = RosterAt(engine.authorities, header.height)

\* C9: PoaRoundRobinByHeight's seal and validate agree: a header seal
\* returns validates against the same parent digest, and when seal returns
\* None no consensus digest makes the header validate against that parent.
RoundRobinByHeightSealAgreesWithValidate ==
    Done("seal", "PoaRoundRobinByHeight")
        => /\ result.kind \in {"some", "none"}
           /\ result.kind = "some"
                 => PoaRoundRobinByHeightValidate(engine, parent_digest, result.header)
                        = "true"
           /\ result.kind = "none"
                 => \A d \in ConsensusAuthority :
                       PoaRoundRobinByHeightValidate(engine, parent_digest,
                                                     WithDigest(header, d)) # "true"

\* C9, its case: seal has returned a header, which validates.
RoundRobinByHeightSealAgreesWitness ==
    /\ Done("seal", "PoaRoundRobinByHeight")
    /\ engine.authorities = <<Alice, Bob, Charlie>>
    /\ result.kind = "some"
    /\ PoaRoundRobinByHeightValidate(engine, parent_digest, result.header) = "true"

\* C10: PoaRoundRobinBySlot's expected signer depends on the slot alone:
\* with parent.slot < header.slot, validate accepts exactly when the
\* signature is roster[slot mod roster_size], whatever the height (stated
\* for the roster of create_default_instance, where the roster's order is
\* the order of the engine's own table).
RoundRobinBySlotSignerIsBySlot ==
    (/\ Done("validate", "PoaRoundRobinBySlot")
     /\ engine.authorities = <<Alice, Bob, Charlie>>
     /\ parent_digest.slot < header.consensus_digest.slot)
        => (result = "true"
              <=> header.consensus_digest.signature
                      = RosterAt(engine.authorities, header.consensus_digest.slot))

\* C11: PoaRoundRobinBySlot::validate enforces strictly increasing slots: it
\* returns false whenever header.consensus_digest.slot <= parent_digest.slot,
\* whatever the height and the signature; and a slot more than one above the
\* parent's gets the verdict it would get directly after slot - 1, so a gap
\* is no reason to reject.
SlotsStrictlyIncrease ==
    Done("validate", "PoaRoundRobinBySlot")
        => /\ header.consensus_digest.slot <= parent_digest.slot => result = "false"
           /\ header.consensus_digest.slot > parent_digest.slot + 1
                 => result = PoaRoundRobinBySlotValidate(engine,
                                 SlotDigest(header.consensus_digest.slot - 1,
                                            parent_digest.signature),
                                 header)

\* C11, its case: a header that reuses its parent's slot is rejected although
\* it carries the signature validate accepts for it after a lower slot.
SlotsStrictlyIncreaseWitness ==
    /\ Done("validate", "PoaRoundRobinBySlot")
    /\ header.consensus_digest.slot = parent_digest.slot
    /\ parent_digest.slot > 0
    /\ PoaRoundRobinBySlotValidate(engine,
           SlotDigest(parent_digest.slot - 1, parent_digest.signature), header) = "true"
    /\ result = "false"

\* C12: an authority-set engine (SimplePoa, PoaRoundRobinByHeight,
\* PoaRoundRobinBySlot) whose roster is empty seals nothing: seal returns
\* None for every parent digest and partial header.
EmptyRosterSealsNothing ==
    (/\ pc = "done"
     /\ call = "seal"
     /\ engine.kind \in {"SimplePoa", "PoaRoundRobinByHeight", "PoaRoundRobinBySlot"}
     /\ Len(engine.authorities) = 0)
        => result.kind = "none"

EvenOnlySealMakesEven ==
    (Done("seal", "EvenOnly") /\ result.kind = "some")
        => /\ result.header.state_root % 2 = 0
           /\ result.header.state_root
                 = IF header.state_root % 2 = 0 THEN header.state_root
                   ELSE header.state_root + 1
           /\ result.header.parent = header.parent
           /\ result.header.height = header.height
           /\ result.header.extrinsics_root = header.extrinsics_root

\* The engine is Forked(F, X, EvenOnly(X)), the shape even_after_given_height
\* builds.
IsEvenAfterFork(e) ==
    e.kind = "Forked" /\ e.inner_c_after = EvenOnly(e.inner_c_before)

DigestConversionsRoundTrip ==
    Done("from", "From") => result.back = parent_digest

\* C16 amended: native -> D -> native is the identity for every value; D ->
\* native -> D is the identity exactly on the variant that embeds that native
\* type (Pow for u64, Poa for ConsensusAuthority), and a value of the other
\* variant comes back as the embedded placeholder, Pow(10) or Poa(Alice).
DigestConversionsRoundTripOwnVariant ==
    Done("from", "From")
        => CASE engine.to = "PowOrPoaDigest" -> result.back = parent_digest
             [] engine.to = "u64" ->
                    result.back = IF parent_digest.tag = "Pow" THEN parent_digest
                                  ELSE Pow(PoaAsU64)
             [] engine.to = "ConsensusAuthority" ->
                    result.back = IF parent_digest.tag = "Poa" THEN parent_digest
                                  ELSE Poa(Alice)

\* C16, its case: a Pow value with a nonce other than the placeholder,
\* projected to u64 and embedded again, is back unchanged.
DigestConversionsRoundTripWitness ==
    /\ Done("from", "From")
    /\ engine.from = "PowOrPoaDigest"
    /\ engine.to = "u64"
    /\ parent_digest.tag = "Pow"
    /\ parent_digest.pow # PoaAsU64
    /\ result.back = parent_digest

AlternatingDispatchesOnParity ==
    /\ (Done("seal", "AlternatingPowPoa") /\ result.kind = "some")
          => LET d == result.header.consensus_digest
             IN  IF header.height % 2 = 1
                 THEN /\ IsSome(d.digest_for_threshold)
                      /\ \E checked \in BOOLEAN :
                            PoWSeal(engine.inner_pow, Unwrap(parent_digest.digest_for_threshold),
                                    header, checked)
                              = SealSome(WithDigest(result.header,
                                                    Unwrap(d.digest_for_threshold)))
                 ELSE /\ IsSome(d.authority)
                      /\ SimplePoaSeal(engine.inner_poa, Unwrap(parent_digest.authority),
                                       header, TRUE)
                            = SealSome(WithDigest(result.header, Unwrap(d.authority)))
    /\ (/\ Done("validate", "AlternatingPowPoa")
        /\ IsSome(ActiveSlot(parent_digest, header.height))
        /\ IsSome(ActiveSlot(header.consensus_digest, header.height)))
          => result = IF header.height % 2 = 1
                      THEN PoWValidate(engine.inner_pow, 0,
                               WithDigest(header,
                                   Unwrap(header.consensus_digest.digest_for_threshold)))
                      ELSE SimplePoaValidate(engine.inner_poa, Unwrap(parent_digest.authority),
                               WithDigest(header, Unwrap(header.consensus_digest.authority)))

\* C18, its case: a header sealed at an odd height, carrying the nonce the
\* PoW engine found, from a parent digest that has both slots.
AlternatingDispatchesOnParityWitness ==
    /\ Done("seal", "AlternatingPowPoa")
    /\ header.height % 2 = 1
    /\ IsSome(parent_digest.authority)
    /\ result.kind = "some"
    /\ IsSome(result.header.consensus_digest.digest_for_threshold)

\* C19: a header AlternatingPowPoa::seal(d, partial_header) returns validates
\* against the same digest d.
AlternatingSealedHeaderValidates ==
    (Done("seal", "AlternatingPowPoa") /\ result.kind = "some")
        => AlternatingPowPoaValidate(engine, parent_digest, result.header) = "true"

\* No authority occurs twice in the roster.
NoRepetition(roster) ==
    \A i, j \in 1 .. Len(roster) : roster[i] = roster[j] => i = j

\* C20: SimplePoa::seal, for a roster of two or more distinct authorities,
\* returns a header signed by a roster member other than parent_digest, for
\* every parent digest; for a roster of one member, a header signed by that
\* member.
SimplePoaSealAvoidsParentSigner ==
    (Done("seal", "SimplePoa") /\ NoRepetition(engine.authorities))
        => /\ Len(engine.authorities) >= 2
                 => /\ result.kind = "some"
                    /\ result.header.consensus_digest \in Members(engine.authorities)
                    /\ result.header.consensus_digest # parent_digest
                    /\ result.header = WithDigest(header, result.header.consensus_digest)
           /\ Len(engine.authorities) = 1
                 => result = SealSome(WithDigest(header, engine.authorities[1]))

\* C20, its case: the parent's signer is the roster's last member, and seal
\* proposes the first one.
SimplePoaSealAvoidsParentSignerWitness ==
    /\ Done("seal", "SimplePoa")
    /\ Len(engine.authorities) >= 2
    /\ parent_digest = engine.authorities[Len(engine.authorities)]
    /\ result.kind = "some"
    /\ result.header.consensus_digest = engine.authorities[1]

\* C21: fork_height is the first height under the new rules: a header or
\* partial header at a height >= fork_height is validated and sealed by the
\* After engine, and only heights < fork_height use Before.
ForkHeightIsFirstAfterHeight ==
    /\ Done("validate", "Forked")
          => result = IF header.height >= engine.fork_height
                      THEN AfterValidate(engine, parent_digest, header)
                      ELSE BeforeValidate(engine, parent_digest, header)
    /\ Done("seal", "Forked")
          => result \in IF header.height >= engine.fork_height
                        THEN AfterSeals(engine, parent_digest, header)
                        ELSE BeforeSeals(engine, parent_digest, header)

\* C22: the engines change_authorities and change_difficulty return fork at
\* the height they were asked for: the first seals with the initial
\* authorities up to the argument fork_height and with the final ones after
\* it, the second validates against the initial threshold up to it and
\* against the final one after it.
ForkAtRequestedHeight ==
    /\ Done("seal", "change_authorities")
          => result \in {SimplePoaSeal(SimplePoa(IF header.height <= engine.fork_height
                                                 THEN engine.initial_authorities
                                                 ELSE engine.final_authorities),
                                       parent_digest, header, checked) :
                            checked \in BOOLEAN}
    /\ Done("validate", "change_difficulty")
          => result = PoWValidate(PoW(IF header.height <= engine.fork_height
                                      THEN engine.initial_difficulty
                                      ELSE engine.final_difficulty),
                                  parent_digest, header)

\* child.parent == hash(parent) and child.height == parent.height + 1.
IsChildOf(child, parent) ==
    child.parent = Hash(parent) /\ child.height = parent.height + 1

\* C23: Header::verify_sub_chain accepts exactly the valid chains: for a
\* header h and a sequence of two or more headers it returns true if and
\* only if the first one is a child of h and each later one a child of its
\* predecessor.
HeaderVerifySubChainAcceptsValidChains ==
    (Done("verify_sub_chain", "Header") /\ Len(chain) >= 2)
        => result = Bool(/\ IsChildOf(chain[1], header)
                         /\ \A i \in 2 .. Len(chain) : IsChildOf(chain[i], chain[i - 1]))

\* C24: the block Block::child returns is a child of the parent block: its
\* header's parent is the hash of the parent block's header and its height
\* the parent's plus one.
BlockChildIsChild ==
    (Done("child", "Block") /\ result.kind = "block")
        => IsChildOf(result.block.header, args.self.header)

\* C25: create_empty_chain(n, genesis_state) returns, for every n >= 0,
\* without a panic, a chain of exactly n blocks, the first one the genesis
\* block, every body empty.
CreateEmptyChainReturnsNBlocks ==
    Done("create_empty_chain", "create_empty_chain")
        => /\ result.kind = "chain"
           /\ Len(result.chain) = args.n
           /\ args.n >= 1 => result.chain[1] = BlockGenesis("PoW", args.genesis_state)
           /\ \A i \in 1 .. Len(result.chain) : result.chain[i].body = <<>>

\* C26: from a state Authenticating(h) with any keystroke register,
\* PressKey(Enter) moves to Authenticated if hash(register) = h and to
\* Waiting otherwise; either way the register is emptied and cash_inside
\* is unchanged.
AtmEnterChecksPin ==
    (/\ Done("next_state", "Atm")
     /\ args.starting_state.expected_pin_hash.tag = "Authenticating"
     /\ args.t = PressKey("Enter"))
        => LET s == args.starting_state
           IN  result = AtmSome(Atm(s.cash_inside,
                                    IF HashKeys(s.keystroke_register)
                                          = s.expected_pin_hash.hash
                                    THEN Authenticated ELSE Waiting,
                                    <<>>))

\* C26, its case: Enter after the keys of the right PIN authenticates an ATM
\* that holds cash.
AtmEnterChecksPinWitness ==
    /\ Done("next_state", "Atm")
    /\ args.starting_state.expected_pin_hash.tag = "Authenticating"
    /\ args.t = PressKey("Enter")
    /\ Len(args.starting_state.keystroke_register) > 0
    /\ args.starting_state.cash_inside > 0
    /\ result.kind = "state"
    /\ result.state.expected_pin_hash = Authenticated
    /\ result.state.keystroke_register = <<>>

RECURSIVE DecimalAmount(_)
\* The number a register of numeric keys spells in decimal.
DecimalAmount(register) ==
    IF Len(register) = 0 THEN 0
    ELSE 10 * DecimalAmount(SubSeq(register, 1, Len(register) - 1))
            + KeyDigit(register[Len(register)])

\* C27: from an Authenticated state PressKey(Enter) reads the register as a
\* decimal amount; if the amount exceeds cash_inside the cash is unchanged,
\* otherwise cash_inside decreases by exactly the amount; either way the
\* state becomes Waiting with an empty register.
AtmEnterWithdraws ==
    (/\ Done("next_state", "Atm")
     /\ args.starting_state.expected_pin_hash = Authenticated
     /\ args.t = PressKey("Enter"))
        => LET s == args.starting_state
               amount == DecimalAmount(s.keystroke_register)
           IN  result = AtmSome(Atm(IF amount > s.cash_inside
                                    THEN s.cash_inside
                                    ELSE s.cash_inside - amount,
                                    Waiting, <<>>))

\* C28: from every state SwipeCard(p) sets the authentication status to
\* Authenticating(p) and leaves cash_inside and the keystroke register
\* unchanged.
AtmSwipeCardFrame ==
    (Done("next_state", "Atm") /\ args.t.tag = "SwipeCard")
        => LET s == args.starting_state
           IN  result = AtmSome(Atm(s.cash_inside, Authenticating(args.t.pin_hash),
                                    s.keystroke_register))

\* C28, its case: a card swiped at an authenticated ATM with cash and with
\* keys in its register.
AtmSwipeCardFrameWitness ==
    /\ Done("next_state", "Atm")
    /\ args.t.tag = "SwipeCard"
    /\ args.starting_state.expected_pin_hash = Authenticated
    /\ Len(args.starting_state.keystroke_register) > 0
    /\ args.starting_state.cash_inside > 0
    /\ result.kind = "state"
    /\ result.state.expected_pin_hash = Authenticating(args.t.pin_hash)
    /\ result.state.keystroke_register = args.starting_state.keystroke_register

\* C29: PressKey(k) with k other than Enter leaves the whole state unchanged
\* when the ATM is Waiting; when it is Authenticating or Authenticated it
\* appends k to the end of the keystroke register and leaves cash_inside
\* and the authentication status unchanged.
AtmKeyPressRegisters ==
    (/\ Done("next_state", "Atm")
     /\ args.t.tag = "PressKey"
     /\ args.t.key # "Enter")
        => LET s == args.starting_state
           IN  result = AtmSome(IF s.expected_pin_hash.tag = "Waiting"
                                THEN s
                                ELSE [s EXCEPT !.keystroke_register =
                                                  Append(@, args.t.key)])

\* C29, its case: a key appended to the keys of a PIN being typed.
AtmKeyPressRegistersWitness ==
    /\ Done("next_state", "Atm")
    /\ args.t.tag = "PressKey"
    /\ args.t.key # "Enter"
    /\ Len(args.starting_state.keystroke_register) > 0
    /\ args.starting_state.expected_pin_hash.tag = "Authenticating"
    /\ result.kind = "state"
    /\ result.state.keystroke_register
          = Append(args.starting_state.keystroke_register, args.t.key)

\* Some row, some column or one of the two diagonals holds three equal
\* symbols that are not blank.
ThreeInLine(data) ==
    \E sym \in {"X", "O"} :
        \/ \E r \in Rows : \A c \in Cols : data[r][c] = sym
        \/ \E c \in Cols : \A r \in Rows : data[r][c] = sym
        \/ \A i \in Rows : data[i][i] = sym
        \/ \A i \in Rows : data[i][N_COLS - 1 - i] = sym

\* All the cells are marked.
AllMarked(data) == \A r \in Rows, c \in Cols : data[r][c] # "Blank"

\* C30: in every state reachable from the blank initial state, a MarkCell
\* transition returns without error, and after it match_complete is true
\* if and only if some row, some column or one of the two diagonals holds
\* three equal non-blank symbols or all nine cells are marked.
TicTacToeCompletion ==
    (call = "play" /\ args # NoArgs /\ args.t.tag = "MarkCell")
        => /\ result.kind = "state"
           /\ result.state.match_complete
                 <=> (ThreeInLine(result.state.board) \/ AllMarked(result.state.board))

\* A call of next_state on a MarkCell has ended.
AfterMarkCell == call = "play" /\ pc = "done" /\ args.t.tag = "MarkCell"

\* A MarkCell the board does not take: its symbol is Blank or that of the
\* last mover, its row or column is out of range, or its cell is marked.
IllegalMark(s, t) ==
    \/ t.symbol = "Blank"
    \/ t.symbol = s.last_mover
    \/ t.row >= N_ROWS
    \/ t.col >= N_COLS
    \/ s.board[t.row][t.col] # "Blank"

\* The state s with the mark of t, one more transition and t's symbol the
\* last mover, whatever its match_complete.
IsMarked(after, s, t) ==
    /\ after.board = [s.board EXCEPT ![t.row][t.col] = t.symbol]
    /\ after.num_transitions = s.num_transitions + 1
    /\ after.last_mover = t.symbol

\* C31, as stated: an illegal MarkCell leaves board, num_transitions,
\* last_mover and match_complete unchanged, and every other MarkCell sets
\* exactly its cell, increments num_transitions and sets last_mover.
TicTacToeIllegalMarksAreNoOps ==
    AfterMarkCell
        => IF IllegalMark(args.starting, args.t)
           THEN result.state = args.starting
           ELSE IsMarked(result.state, args.starting, args.t)

\* C31, amended: a MarkCell that is illegal or comes after the match is
\* complete leaves board, num_transitions, last_mover and match_complete
\* unchanged; a legal one while the match is not complete sets exactly its
\* cell, increments num_transitions and sets last_mover.
TicTacToeIllegalOrLateMarksAreNoOps ==
    AfterMarkCell
        => IF IllegalMark(args.starting, args.t) \/ args.starting.match_complete
           THEN result.state = args.starting
           ELSE IsMarked(result.state, args.starting, args.t)

\* C31, its case: in a match that is not complete, a mark of the player
\* whose turn it is on a cell that is marked already changes nothing.
TicTacToeIllegalOrLateMarksAreNoOpsWitness ==
    /\ AfterMarkCell
    /\ ~args.starting.match_complete
    /\ args.t.symbol \notin {"Blank", args.starting.last_mover}
    /\ args.t.row < N_ROWS
    /\ args.t.col < N_COLS
    /\ args.starting.board[args.t.row][args.t.col] # "Blank"
    /\ result = TTTSome(args.starting)

\* C32: from every state, one whose match is complete included, the Reset
\* transition yields the initial state: all cells Blank, num_transitions
\* 0, last_mover Blank, match_complete false.
TicTacToeResetYieldsInitialState ==
    (call = "play" /\ pc = "done" /\ args.t.tag = "Reset")
        => result = TTTSome(StateNew)

\* C33: next_state returns the successor as a value and leaves the state
\* passed as starting unchanged: after the call, what starting points to
\* still equals what it held when the call was made.
TicTacToeNextStateLeavesStartingUnchanged ==
    (call = "play" /\ pc = "done") => result.state = args.starting

\* C34: round-robin-by-slot self-sealed headers validate: for the default
\* roster, every parent digest and a partial header of any height, seal
\* returns a header whose slot is parent.slot + 1, signed by the roster's
\* authority for that slot, and validate accepts that header against the
\* same parent digest.
RoundRobinBySlotSealedHeaderValidates ==
    (/\ Done("seal", "PoaRoundRobinBySlot")
     /\ engine.authorities = <<Alice, Bob, Charlie>>)
        => /\ result.kind = "some"
           /\ result.header.consensus_digest.slot = parent_digest.slot + 1
           /\ result.header.consensus_digest.signature
                 = engine.authorities[(result.header.consensus_digest.slot
                                          % Len(engine.authorities)) + 1]
           /\ PoaRoundRobinBySlotValidate(engine, parent_digest, result.header) = "true"

====
